---- MODULE Spec2Model ----
EXTENDS Integers, Sequences, FiniteSets, TLC

(***************************************************************************)
(* Model of app.py: the /mcp envelope dispatcher, its seven handlers, the  *)
(* REST routes that share the store, and the pure helpers validate_data    *)
(* and transform_record.                                                   *)
(*                                                                         *)
(* Spec serves one call per step; SpecThreads serves calls on the fallback  *)
(* store in threads that interleave statement by statement.                *)
(*                                                                         *)
(* A JSON value is a record [t, s, n, items]: t is the JSON type, s the    *)
(* text of a string, n the value of a number (or the length of a list),    *)
(* items the ordered (key, value) pairs of an object.                      *)
(***************************************************************************)

VARIABLES sheet, header, sheet_rows, demo_data, req, resp, prev, store_calls,
          acked, arg, ret, threads

vars == <<sheet, header, sheet_rows, demo_data, req, resp, prev, store_calls,
          acked, arg, ret, threads>>

-----------------------------------------------------------------------------
(* Python str operations *)

\* s[i - 1]
Ch(s, i) == SubSeq(s, i, i)

\* s[i - 1:]
From(s, i) == SubSeq(s, i, Len(s))

CharsOf(s) == {Ch(s, i) : i \in 1..Len(s)}

UpperChars == "ABCDEFGHIJKLMNOPQRSTUVWXYZ"
LowerChars == "abcdefghijklmnopqrstuvwxyz"
DigitChars == "0123456789"

Letters == CharsOf(UpperChars) \cup CharsOf(LowerChars)
Digits == CharsOf(DigitChars)
Whitespace == {" ", "\t", "\n"}

Range(seq) == {seq[i] : i \in 1..Len(seq)}

LowerChar(c) ==
    IF \E i \in 1..Len(UpperChars) : Ch(UpperChars, i) = c
    THEN Ch(LowerChars, CHOOSE i \in 1..Len(UpperChars) : Ch(UpperChars, i) = c)
    ELSE c

\* str.lower()
RECURSIVE Lower(_)
Lower(s) == IF s = "" THEN "" ELSE LowerChar(Ch(s, 1)) \o Lower(From(s, 2))

\* str.strip()
Strip(s) ==
    LET keep == {i \in 1..Len(s) : Ch(s, i) \notin Whitespace}
    IN  IF keep = {} THEN ""
        ELSE SubSeq(s, CHOOSE i \in keep : \A j \in keep : i <= j,
                       CHOOSE i \in keep : \A j \in keep : i >= j)

\* str.replace(old, new) for a one-character old
RECURSIVE Replace(_, _, _)
Replace(s, old, new) ==
    IF s = "" THEN ""
    ELSE (IF Ch(s, 1) = old THEN new ELSE Ch(s, 1)) \o Replace(From(s, 2), old, new)

\* str.replace(c, "") for every c of a set
RECURSIVE Remove(_, _)
Remove(s, cs) ==
    IF s = "" THEN ""
    ELSE (IF Ch(s, 1) \in cs THEN "" ELSE Ch(s, 1)) \o Remove(From(s, 2), cs)

\* characters str.isdigit() accepts and int() does not: superscripts and other
\* digits that are not decimal digits
OtherDigits == {"²"}

\* str.isdigit()
IsDigit(s) == s # "" /\ \A i \in 1..Len(s) : Ch(s, i) \in Digits \cup OtherDigits

\* a non-empty run of the decimal digits int() parses
IsDecimal(s) == s # "" /\ \A i \in 1..Len(s) : Ch(s, i) \in Digits

\* sub in s
Contains(s, sub) ==
    \E i \in 0..(Len(s) - Len(sub)) : SubSeq(s, i + 1, i + Len(sub)) = sub

\* re.match(r'^[class]+$', s) on a string without a trailing newline
MatchesClass(s, class) == s # "" /\ \A i \in 1..Len(s) : Ch(s, i) \in class

\* sep.join(parts)
RECURSIVE Join(_, _)
Join(parts, sep) ==
    IF parts = <<>> THEN ""
    ELSE IF Len(parts) = 1 THEN parts[1]
    ELSE parts[1] \o sep \o Join(Tail(parts), sep)

DigitVal(c) == (CHOOSE i \in 1..Len(DigitChars) : Ch(DigitChars, i) = c) - 1

\* the value of a string of digits
RECURSIVE NatOf(_)
NatOf(s) ==
    IF s = "" THEN 0
    ELSE NatOf(SubSeq(s, 1, Len(s) - 1)) * 10 + DigitVal(Ch(s, Len(s)))

\* str(n) for n >= 0
RECURSIVE NatChars(_)
NatChars(n) ==
    IF n < 10 THEN Ch(DigitChars, n + 1)
    ELSE NatChars(n \div 10) \o Ch(DigitChars, (n % 10) + 1)

-----------------------------------------------------------------------------
(* JSON values *)

JStr(str) == [t |-> "str", s |-> str, n |-> 0, items |-> <<>>]
JInt(n) == [t |-> "int", s |-> "", n |-> n, items |-> <<>>]
JNull == [t |-> "null", s |-> "", n |-> 0, items |-> <<>>]
JList(len) == [t |-> "list", s |-> "", n |-> len, items |-> <<>>]
JDict(items) == [t |-> "dict", s |-> "", n |-> 0, items |-> items]
KV(k, v) == [k |-> k, v |-> v]

\* bool(v): None, 0, "", [] and {} are falsy
Truthy(v) ==
    CASE v.t = "str" -> v.s # ""
      [] v.t = "int" -> v.n # 0
      [] v.t = "null" -> FALSE
      [] v.t = "list" -> v.n > 0
      [] v.t = "dict" -> v.items # <<>>

\* isinstance(v, dict)
IsDict(v) == v.t = "dict"

\* k in d, for a dict d
HasKey(d, k) == \E i \in 1..Len(d.items) : d.items[i].k = k

\* d.get(k, default), for a dict d
Get(d, k, default) ==
    IF HasKey(d, k)
    THEN d.items[CHOOSE i \in 1..Len(d.items) : d.items[i].k = k].v
    ELSE default

\* str(v)
Str(v) ==
    CASE v.t = "str" -> v.s
      [] v.t = "int" -> IF v.n < 0 THEN "-" \o NatChars(-v.n) ELSE NatChars(v.n)
      [] v.t = "null" -> "None"
      [] OTHER -> "[]"

\* int(v): [ok, n]; not ok stands for ValueError or TypeError
PyInt(v) ==
    CASE v.t = "int" -> [ok |-> TRUE, n |-> v.n]
      [] v.t = "str" ->
            LET body == Strip(v.s)
                signed == body # "" /\ Ch(body, 1) \in {"+", "-"}
                digits == IF signed THEN From(body, 2) ELSE body
            IN  IF IsDecimal(digits)
                THEN [ok |-> TRUE,
                      n |-> IF signed /\ Ch(body, 1) = "-" THEN -NatOf(digits) ELSE NatOf(digits)]
                ELSE [ok |-> FALSE, n |-> 0]
      [] OTHER -> [ok |-> FALSE, n |-> 0]

-----------------------------------------------------------------------------
(* The five canonical fields and the error table *)

Fields == <<"Name", "City", "Age", "Email", "Phone">>
FieldSet == Range(Fields)

MCP_ERRORS ==
    [PARSE_ERROR |-> -32700, INVALID_REQUEST |-> -32600, METHOD_NOT_FOUND |-> -32601,
     INVALID_PARAMS |-> -32602, INTERNAL_ERROR |-> -32603, SHEET_ERROR |-> -32000,
     VALIDATION_ERROR |-> -32001, DATA_NOT_FOUND |-> -32002]

-----------------------------------------------------------------------------
(* validate_data *)

NameClass == Letters \cup Whitespace \cup {"'", "-"}
EmailLocalClass == Letters \cup Digits \cup {".", "_", "%", "+", "-"}
EmailDomainClass == Letters \cup Digits \cup {".", "-"}
DisposableDomains == {"tempmail", "10minute", "guerrilla"}
PhoneSeparators == {" ", "-", "(", ")", "+"}

\* re.match(r'^[a-zA-Z0-9._%+-]+@[a-zA-Z0-9.-]+\.[a-zA-Z]{2,}$', e)
MatchesEmail(e) ==
    \E i \in 2..Len(e) :
        /\ Ch(e, i) = "@"
        /\ MatchesClass(SubSeq(e, 1, i - 1), EmailLocalClass)
        /\ \E j \in (i + 2)..(Len(e) - 2) :
              /\ Ch(e, j) = "."
              /\ MatchesClass(SubSeq(e, i + 1, j - 1), EmailDomainClass)
              /\ MatchesClass(SubSeq(e, j + 1, Len(e)), Letters)

NameErrors(data) ==
    LET name == Strip(Get(data, "Name", JStr("")).s)
    IN  IF name = "" \/ Len(name) < 2
        THEN <<"Name must be at least 2 characters">>
        ELSE IF ~MatchesClass(name, NameClass)
        THEN <<"Name should only contain letters, spaces, hyphens, and apostrophes">>
        ELSE <<>>

CityErrors(data) ==
    LET city == Strip(Get(data, "City", JStr("")).s)
    IN  IF city = "" \/ Len(city) < 2
        THEN <<"City must be at least 2 characters">>
        ELSE IF ~MatchesClass(city, NameClass)
        THEN <<"City should only contain letters, spaces, hyphens, and apostrophes">>
        ELSE <<>>

\* the age check without its range
AgeErrorsNoRange(data) ==
    IF PyInt(Get(data, "Age", JInt(0))).ok THEN <<>> ELSE <<"Age must be a valid number">>

AgeErrors(data) ==
    LET age == PyInt(Get(data, "Age", JInt(0)))
    IN  IF ~age.ok THEN <<"Age must be a valid number">>
        ELSE IF age.n < 1 \/ age.n > 120 THEN <<"Age must be between 1 and 120">>
        ELSE IF age.n < 13 THEN <<"Age appears too young for data collection compliance">>
        ELSE <<>>

EmailErrors(data) ==
    LET email == Lower(Strip(Get(data, "Email", JStr("")).s))
    IN  IF email = "" THEN <<"Email address is required">>
        ELSE IF ~MatchesEmail(email) THEN <<"Please enter a valid email address">>
        ELSE IF \E domain \in DisposableDomains : Contains(email, domain)
        THEN <<"Temporary email addresses are not allowed">>
        ELSE <<>>

PhoneErrors(data) ==
    LET phone == Remove(Get(data, "Phone", JStr("")).s, PhoneSeparators)
    IN  IF phone = "" THEN <<"Phone number is required">>
        ELSE IF ~IsDigit(phone) THEN <<"Phone number should contain only digits">>
        ELSE IF Len(phone) < 8 THEN <<"Phone number must be at least 8 digits">>
        ELSE IF Len(phone) > 15 THEN <<"Phone number seems too long">>
        ELSE <<>>

\* .strip() and .replace() exist on str only: any other value of Name, City,
\* Email or Phone raises AttributeError, which validate_data does not catch
ValidateRaises(data) ==
    \E f \in {"Name", "City", "Email", "Phone"} : HasKey(data, f) /\ Get(data, f, JNull).t # "str"

\* validate_data stopping at the first field that has a violation
validate_data_first_only(data) ==
    LET all == NameErrors(data) \o CityErrors(data) \o AgeErrors(data)
                 \o EmailErrors(data) \o PhoneErrors(data)
    IN  [raised |-> ValidateRaises(data),
         errors |-> IF ValidateRaises(data) \/ all = <<>> THEN <<>> ELSE <<all[1]>>]

validate_data(data) ==
    [raised |-> ValidateRaises(data),
     errors |-> IF ValidateRaises(data) THEN <<>>
                ELSE NameErrors(data) \o CityErrors(data) \o AgeErrors(data)
                       \o EmailErrors(data) \o PhoneErrors(data)]

-----------------------------------------------------------------------------
(* transform_record *)

field_mappings ==
    [Name |-> <<"name", "Name", "NAME">>, City |-> <<"city", "City", "CITY">>,
     Age |-> <<"age", "Age", "AGE">>, Email |-> <<"email", "Email", "EMAIL">>,
     Phone |-> <<"phone", "Phone", "PHONE">>]

\* the inner for/else: the value of the first key of possible_keys in record
FirstPresent(record, possible_keys) ==
    LET present == {i \in 1..Len(possible_keys) : possible_keys[i] \in DOMAIN record}
    IN  IF present = {} THEN JStr("")
        ELSE record[possible_keys[CHOOSE i \in present : \A j \in present : i <= j]]

\* the scan taking the last present key instead of the first
LastPresent(record, possible_keys) ==
    LET present == {i \in 1..Len(possible_keys) : possible_keys[i] \in DOMAIN record}
    IN  IF present = {} THEN JStr("")
        ELSE record[possible_keys[CHOOSE i \in present : \A j \in present : i >= j]]

transform_record_last_key(record) ==
    [f \in FieldSet |-> LastPresent(record, field_mappings[f])]

transform_record(record) ==
    [f \in FieldSet |-> FirstPresent(record, field_mappings[f])]

-----------------------------------------------------------------------------
(* The store: the remote sheet when it was opened at import, else demo_data *)

Rec(name, city, age, email, phone) ==
    [Name |-> name, City |-> city, Age |-> age, Email |-> email, Phone |-> phone]

SeedData ==
    << Rec(JStr("Alice Johnson"), JStr("London"), JStr("28"), JStr("alice@example.com"), JStr("1234567890")),
       Rec(JStr("Bob Smith"), JStr("New York"), JStr("35"), JStr("bob@example.com"), JStr("0987654321")),
       Rec(JStr("Carol Davis"), JStr("Tokyo"), JStr("24"), JStr("carol@example.com"), JStr("1122334455")),
       Rec(JStr("David Wilson"), JStr("London"), JStr("42"), JStr("david@example.com"), JStr("2233445566")),
       Rec(JStr("Eva Brown"), JStr("Paris"), JStr("31"), JStr("eva@example.com"), JStr("3344556677")),
       Rec(JStr("Frank Miller"), JStr("New York"), JStr("29"), JStr("frank@example.com"), JStr("4455667788")),
       Rec(JStr("Grace Lee"), JStr("Seoul"), JStr("26"), JStr("grace@example.com"), JStr("5566778899")) >>

\* the header row of the sheet is one case variant of the five field names
HeaderVariants == 1..3
HeaderKey(h, f) == field_mappings[f][h]

\* sheet.get_all_records(): one mapping per row, keyed by the header row
get_all_records(h, rows) ==
    [i \in 1..Len(rows) |->
        [k \in {HeaderKey(h, f) : f \in FieldSet} |->
            rows[i][CHOOSE f \in FieldSet : HeaderKey(h, f) = k]]]

\* all_records, then [transform_record(record) for record in all_records]
TransformedRecords ==
    IF sheet
    THEN LET all_records == get_all_records(header, sheet_rows)
         IN  [i \in 1..Len(all_records) |-> transform_record(all_records[i])]
    ELSE demo_data

-----------------------------------------------------------------------------
(* assess_data_quality and generate_quality_recommendations.  A rate is    *)
(* the exact fraction n/d of the percentage the code holds as a float; a   *)
(* reported score is a number of tenths, the value of round(x, 1).         *)

\* (count / total) * 100
Rate(count, total) == [n |-> 100 * count, d |-> total]

\* rate < th
Below(rate, th) == rate.n < th * rate.d

\* n/d rounded to an integer, halves to the even one
RoundHalfEven(n, d) ==
    LET q == n \div d
        r == n % d
    IN  IF 2 * r < d THEN q
        ELSE IF 2 * r > d THEN q + 1
        ELSE IF q % 2 = 0 THEN q ELSE q + 1

\* round(rate, 1), in tenths
Round1(rate) == RoundHalfEven(10 * rate.n, rate.d)

\* f"{rate:.1f}"
Format1(rate) == NatChars(Round1(rate) \div 10) \o "." \o NatChars(Round1(rate) % 10)

\* record.get(field)
Field(record, field) == IF field \in DOMAIN record THEN record[field] ELSE JNull

\* the test without the strip()
PresentUntrimmed(record, field) == Truthy(Field(record, field))

\* record.get(field) and str(record.get(field)).strip()
Present(record, field) ==
    Truthy(Field(record, field)) /\ Strip(Str(Field(record, field))) # ""

\* field_completeness[field] after the loop over data
FieldCount(data, field) == Cardinality({i \in 1..Len(data) : Present(data[i], field)})

\* complete_records after the loop over data
CompleteCount(data) ==
    Cardinality({i \in 1..Len(data) : \A f \in FieldSet : Present(data[i], f)})

\* the concatenation of a sequence of sequences
RECURSIVE Chain(_)
Chain(seqs) == IF seqs = <<>> THEN <<>> ELSE seqs[1] \o Chain(Tail(seqs))

generate_quality_recommendations(completion_rates, overall_score) ==
    <<IF ~Below(overall_score, 90)
      THEN "Excellent data quality! Consider implementing automated data enrichment."
      ELSE IF ~Below(overall_score, 70)
      THEN "Good data quality. Focus on improving field completion rates."
      ELSE "Data quality needs improvement. Implement validation and required field checking.">>
      \o Chain([i \in 1..Len(Fields) |->
            IF Below(completion_rates[Fields[i]], 60)
            THEN <<"Critical: " \o Fields[i]
                     \o " field needs attention - consider making it required">>
            ELSE IF Below(completion_rates[Fields[i]], 80)
            THEN <<"Moderate: Improve " \o Fields[i] \o " field completion through better UX">>
            ELSE <<>>])
      \o <<"Consider implementing real-time validation and data enrichment APIs">>

assess_data_quality(data) ==
    IF data = <<>>
    THEN [overall_score |-> 0, issues |-> <<"No data available">>]
    ELSE LET total_records == Len(data)
             complete_records == CompleteCount(data)
             completion_rates == [f \in FieldSet |-> Rate(FieldCount(data, f), total_records)]
             overall_score == Rate(complete_records, total_records)
             issues ==
                 (IF Below(overall_score, 70)
                  THEN <<"Low data completeness - consider improving data collection">>
                  ELSE <<>>)
                   \o Chain([i \in 1..Len(Fields) |->
                         IF Below(completion_rates[Fields[i]], 80)
                         THEN <<Fields[i] \o " field has low completion rate ("
                                  \o Format1(completion_rates[Fields[i]]) \o "%)">>
                         ELSE <<>>])
         IN  [overall_score |-> Round1(overall_score),
              complete_records |-> complete_records,
              total_records |-> total_records,
              field_completion_rates |-> [f \in FieldSet |-> Round1(completion_rates[f])],
              issues |-> IF issues # <<>> THEN issues ELSE <<"Data quality looks good!">>,
              recommendations |->
                  generate_quality_recommendations(completion_rates, overall_score)]

-----------------------------------------------------------------------------
(* generate_analytics.  The result is [raised, summary]: raised says that  *)
(* an exception left the function.  generated_at, the time of the call, is *)
(* not part of the summary here.                                           *)

RECURSIVE Sum(_)
Sum(seq) == IF seq = <<>> THEN 0 ELSE seq[1] + Sum(Tail(seq))

RemoveAt(seq, i) == SubSeq(seq, 1, i - 1) \o SubSeq(seq, i + 1, Len(seq))

\* sorted(ages)
RECURSIVE Sorted(_)
Sorted(seq) ==
    IF seq = <<>> THEN <<>>
    ELSE LET least == CHOOSE i \in 1..Len(seq) :
                        /\ \A j \in 1..Len(seq) : seq[i] <= seq[j]
                        /\ \A j \in 1..(i - 1) : seq[j] # seq[i]
         IN  <<seq[least]>> \o Sorted(RemoveAt(seq, least))

\* the keys of city_counts, in the order of their first occurrence in cities
RECURSIVE FirstOccurrences(_)
FirstOccurrences(cities) ==
    IF cities = <<>> THEN <<>>
    ELSE <<cities[1]>> \o FirstOccurrences(SelectSeq(Tail(cities), LAMBDA c : c # cities[1]))

\* sorted(city_counts.items(), key=lambda x: x[1], reverse=True): a stable sort
RECURSIVE ByCountDescending(_)
ByCountDescending(items) ==
    IF items = <<>> THEN <<>>
    ELSE LET top == CHOOSE i \in 1..Len(items) :
                      /\ \A j \in 1..Len(items) : items[i].count >= items[j].count
                      /\ \A j \in 1..(i - 1) : items[j].count # items[i].count
         IN  <<items[top]>> \o ByCountDescending(RemoveAt(items, top))

\* the first n elements: seq[:n]
Take(seq, n) == SubSeq(seq, 1, IF Len(seq) < n THEN Len(seq) ELSE n)

\* r.get('Age', '')
AgeOf(r) == IF "Age" \in DOMAIN r THEN r["Age"] ELSE JStr("")

\* age_str and str(age_str).isdigit()
AgeCounts(r) == Truthy(AgeOf(r)) /\ IsDigit(Str(AgeOf(r)))

\* the ages whose int() is taken
CountedAges(data) == SelectSeq(data, AgeCounts)

\* sorted_ages[len(ages)//2]
Median(sorted_ages) == sorted_ages[Len(sorted_ages) \div 2 + 1]

generate_analytics(data) ==
    IF data = <<>>
    THEN [raised |-> FALSE, summary |-> [total_records |-> 0, message |-> "No data available"]]
    ELSE LET total_records == Len(data)
             with_city == SelectSeq(data, LAMBDA r : Truthy(Field(r, "City")))
             cities == [i \in 1..Len(with_city) |-> Field(with_city[i], "City")]
             counted == CountedAges(data)
             ages == [i \in 1..Len(counted) |-> PyInt(AgeOf(counted[i])).n]
             keys == FirstOccurrences(cities)
             city_counts ==
                 [i \in 1..Len(keys) |->
                     [city |-> keys[i],
                      count |-> Cardinality({j \in 1..Len(cities) : cities[j] = keys[i]})]]
             sorted_ages == Sorted(ages)
             age_stats ==
                 IF ages = <<>> THEN <<>>
                 ELSE [average |-> [n |-> Sum(ages), d |-> Len(ages)],
                       median |-> Median(sorted_ages),
                       min |-> sorted_ages[1],
                       max |-> sorted_ages[Len(sorted_ages)],
                       age_groups |->
                           [g18_25 |-> Cardinality({i \in 1..Len(ages) : 18 <= ages[i] /\ ages[i] <= 25}),
                            g26_35 |-> Cardinality({i \in 1..Len(ages) : 26 <= ages[i] /\ ages[i] <= 35}),
                            g36_45 |-> Cardinality({i \in 1..Len(ages) : 36 <= ages[i] /\ ages[i] <= 45}),
                            g46_up |-> Cardinality({i \in 1..Len(ages) : ages[i] >= 46})]]
         IN  IF \E i \in 1..Len(counted) : ~PyInt(AgeOf(counted[i])).ok
             THEN [raised |-> TRUE, summary |-> <<>>]
             ELSE [raised |-> FALSE,
                   summary |->
                     [total_records |-> total_records,
                      unique_cities |-> Len(keys),
                      city_distribution |-> Take(ByCountDescending(city_counts), 10),
                      age_statistics |-> age_stats,
                      data_completeness |-> assess_data_quality(data).overall_score]]

-----------------------------------------------------------------------------
(* Responses *)

NoResp ==
    [kind |-> "none", http |-> 0, has_result |-> FALSE, has_error |-> FALSE,
     code |-> 0, data |-> <<>>, id |-> JNull, tag |-> "", rows |-> <<>>,
     count |-> 0, csv |-> "", mode |-> "", summary |-> <<>>]

\* jsonify({"jsonrpc": "2.0", "error": {...}, "id": id}), status
ErrorResp(code, http, id) ==
    [NoResp EXCEPT !.kind = "envelope", !.http = http, !.has_error = TRUE,
                   !.code = code, !.id = id]

\* jsonify({"jsonrpc": "2.0", "result": ..., "id": id})
ResultResp(tag, id) ==
    [NoResp EXCEPT !.kind = "envelope", !.http = 200, !.has_result = TRUE,
                   !.tag = tag, !.id = id]

\* an exception leaves the view function: the framework answers, no envelope
Escaped == [NoResp EXCEPT !.kind = "escaped"]

RestResp(tag, http) == [NoResp EXCEPT !.kind = "rest", !.http = http, !.tag = tag]

Mode == IF sheet THEN "google_sheets" ELSE "demo"

\* what one call did: its response, whether an exception left the handler,
\* the record it appended (if any) and how many store operations it attempted
Outcome(r, calls) == [raised |-> FALSE, resp |-> r, append |-> FALSE, rec |-> <<>>, calls |-> calls]
Raised == [raised |-> TRUE, resp |-> NoResp, append |-> FALSE, rec |-> <<>>, calls |-> 0]
Appended(r, rec) == [raised |-> FALSE, resp |-> r, append |-> TRUE, rec |-> rec, calls |-> 1]

\* mcp_request.get('id') always answering None
NullId(mcp_request) == JNull

\* mcp_request.get('id')
EchoId(mcp_request) == Get(mcp_request, "id", JNull)

-----------------------------------------------------------------------------
(* The envelope handlers.  fail says that the remote store raises on the   *)
(* operation this call performs; it can only happen when sheet is set.     *)

SheetError(mcp_request) == ErrorResp(MCP_ERRORS.SHEET_ERROR, 500, EchoId(mcp_request))
InternalError(id) == ErrorResp(MCP_ERRORS.INTERNAL_ERROR, 500, id)

\* the record add_row builds from params
NewRecord(params) == [f \in FieldSet |-> Get(params, f, JStr(""))]

handle_mcp_add_row(mcp_request, fail) ==
    LET params == Get(mcp_request, "params", JNull)
        validation == validate_data(params)
    IN  IF ~IsDict(params) \/ ~(HasKey(params, "Name") /\ HasKey(params, "City"))
        THEN Outcome(ErrorResp(MCP_ERRORS.INVALID_PARAMS, 400, EchoId(mcp_request)), 0)
        ELSE IF validation.raised THEN Raised
        ELSE IF validation.errors # <<>>
        THEN Outcome([ErrorResp(MCP_ERRORS.VALIDATION_ERROR, 400, EchoId(mcp_request))
                        EXCEPT !.data = validation.errors], 0)
        ELSE IF sheet /\ fail THEN Outcome(SheetError(mcp_request), 1)
        ELSE Appended([ResultResp("add_row", EchoId(mcp_request))
                         EXCEPT !.count = 1, !.mode = Mode], NewRecord(params))

handle_mcp_get_data(mcp_request, fail) ==
    IF sheet /\ fail THEN Outcome(SheetError(mcp_request), 1)
    ELSE Outcome([ResultResp("get_data", EchoId(mcp_request))
                    EXCEPT !.rows = TransformedRecords], 1)

handle_mcp_get_row_count(mcp_request, fail) ==
    IF sheet /\ fail THEN Outcome(SheetError(mcp_request), 1)
    ELSE Outcome([ResultResp("get_row_count", EchoId(mcp_request))
                    EXCEPT !.count = Len(TransformedRecords), !.mode = Mode], 1)

\* the inner loop of the search over params.items(), from pair i on:
\* "match", "nomatch" (break), or "raise" (value.lower() on a non-str value)
RECURSIVE ScanParams(_, _, _)
ScanParams(record, items, i) ==
    IF i > Len(items) THEN "match"
    ELSE IF items[i].k \in DOMAIN record
    THEN IF items[i].v.t # "str" THEN "raise"
         ELSE IF ~Contains(Lower(Str(record[items[i].k])), Lower(items[i].v.s)) THEN "nomatch"
         ELSE ScanParams(record, items, i + 1)
    ELSE ScanParams(record, items, i + 1)

handle_mcp_search_records(mcp_request, fail) ==
    LET params == Get(mcp_request, "params", JNull)
        scan(record) == ScanParams(record, params.items, 1)
        filtered_records == SelectSeq(TransformedRecords, LAMBDA r : scan(r) = "match")
    IN  IF ~IsDict(params) \/ ~(\E k \in {"Name", "City", "Email"} : HasKey(params, k))
        THEN Outcome(ErrorResp(MCP_ERRORS.INVALID_PARAMS, 400, EchoId(mcp_request)), 0)
        ELSE IF sheet /\ fail THEN Outcome(SheetError(mcp_request), 1)
        ELSE IF \E i \in 1..Len(TransformedRecords) : scan(TransformedRecords[i]) = "raise"
        THEN Outcome(SheetError(mcp_request), 1)
        ELSE IF filtered_records = <<>>
        THEN Outcome(ErrorResp(MCP_ERRORS.DATA_NOT_FOUND, 404, EchoId(mcp_request)), 1)
        ELSE Outcome([ResultResp("search_records", EchoId(mcp_request))
                        EXCEPT !.rows = filtered_records], 1)

\* summary is the result of get_analytics and of get_data_quality, count its
\* number of records
handle_mcp_get_analytics(mcp_request, fail) ==
    LET analytics == generate_analytics(TransformedRecords)
    IN  IF sheet /\ fail THEN Outcome(InternalError(EchoId(mcp_request)), 1)
        ELSE IF analytics.raised THEN Outcome(InternalError(EchoId(mcp_request)), 1)
        ELSE Outcome([ResultResp("get_analytics", EchoId(mcp_request))
                        EXCEPT !.count = Len(TransformedRecords),
                               !.summary = analytics.summary], 1)

handle_mcp_get_data_quality(mcp_request, fail) ==
    IF sheet /\ fail THEN Outcome(InternalError(EchoId(mcp_request)), 1)
    ELSE Outcome([ResultResp("get_data_quality", EchoId(mcp_request))
                    EXCEPT !.count = Len(TransformedRecords),
                           !.summary = assess_data_quality(TransformedRecords)], 1)

Newline == "\n"
CsvHeader == "Name,City,Age,Email,Phone"

RECURSIVE Flatten(_)
Flatten(lines) == IF lines = <<>> THEN "" ELSE lines[1] \o Flatten(Tail(lines))

\* one row of the envelope export: commas become ';', fields joined by ','
McpCsvRow(record) ==
    Join([i \in 1..Len(Fields) |-> Replace(Str(record[Fields[i]]), ",", ";")], ",")

\* csv_data of handle_mcp_export_data
McpCsv(records) ==
    IF records = <<>> THEN CsvHeader \o Newline
    ELSE CsvHeader \o Newline
           \o Flatten([i \in 1..Len(records) |-> McpCsvRow(records[i]) \o Newline])

handle_mcp_export_data(mcp_request, fail) ==
    LET params == Get(mcp_request, "params", JDict(<<>>))
        format == Get(params, "format", JStr("json"))
    IN  IF ~IsDict(params) \/ format.t # "str" THEN Raised
        ELSE IF sheet /\ fail THEN Outcome(InternalError(EchoId(mcp_request)), 1)
        ELSE IF Lower(format.s) = "csv"
        THEN Outcome([ResultResp("export_csv", EchoId(mcp_request))
                        EXCEPT !.csv = McpCsv(TransformedRecords),
                               !.count = Len(TransformedRecords)], 1)
        ELSE Outcome([ResultResp("export_json", EchoId(mcp_request))
                        EXCEPT !.rows = TransformedRecords,
                               !.count = Len(TransformedRecords)], 1)

-----------------------------------------------------------------------------
(* mcp_endpoint.  A body is [parse, json]: parse is "bad" for an empty or  *)
(* unparseable body, on which request.get_json() either raises or returns  *)
(* None (get_json_raises), every time it is called.                        *)

MethodIs(mcp_request, name) ==
    LET method == Get(mcp_request, "method", JNull)
    IN  method.t = "str" /\ method.s = name

Dispatch(mcp_request, fail) ==
    IF MethodIs(mcp_request, "add_row") THEN handle_mcp_add_row(mcp_request, fail)
    ELSE IF MethodIs(mcp_request, "get_data") THEN handle_mcp_get_data(mcp_request, fail)
    ELSE IF MethodIs(mcp_request, "get_row_count") THEN handle_mcp_get_row_count(mcp_request, fail)
    ELSE IF MethodIs(mcp_request, "search_records") THEN handle_mcp_search_records(mcp_request, fail)
    ELSE IF MethodIs(mcp_request, "get_analytics") THEN handle_mcp_get_analytics(mcp_request, fail)
    ELSE IF MethodIs(mcp_request, "get_data_quality") THEN handle_mcp_get_data_quality(mcp_request, fail)
    ELSE IF MethodIs(mcp_request, "export_data") THEN handle_mcp_export_data(mcp_request, fail)
    ELSE Outcome(ErrorResp(MCP_ERRORS.METHOD_NOT_FOUND, 404, EchoId(mcp_request)), 0)

\* the except clause: request.get_json().get('id') if request.get_json() else None
ExceptClause(body, get_json_raises) ==
    IF body.parse = "bad"
    THEN IF get_json_raises THEN Outcome(Escaped, 0) ELSE Outcome(InternalError(JNull), 0)
    ELSE IF ~Truthy(body.json) THEN Outcome(InternalError(JNull), 0)
    ELSE IF ~IsDict(body.json) THEN Outcome(Escaped, 0)
    ELSE Outcome(InternalError(EchoId(body.json)), 0)

\* the required-keys check without the protocol version
RequiredKeysNoVersion == {"method", "params"}

\* all(k in mcp_request for k in ['jsonrpc', 'method', 'params'])
RequiredKeys == {"jsonrpc", "method", "params"}

mcp_endpoint(body, get_json_raises, fail) ==
    IF body.parse = "bad" \/ ~Truthy(body.json) \/ ~IsDict(body.json)
    THEN ExceptClause(body, get_json_raises)
    ELSE IF ~(\A k \in RequiredKeys : HasKey(body.json, k))
    THEN Outcome(ErrorResp(MCP_ERRORS.INVALID_REQUEST, 400, EchoId(body.json)), 0)
    ELSE LET out == Dispatch(body.json, fail)
         IN  IF out.raised
             THEN [ExceptClause(body, get_json_raises) EXCEPT !.calls = out.calls]
             ELSE out

-----------------------------------------------------------------------------
(* The REST routes that read and write the same store *)

RestCsvRow(record) ==
    Join([i \in 1..Len(Fields) |-> "\"" \o Str(record[Fields[i]]) \o "\""], ",")

\* csv_data of the REST export_data
RestCsv(records) ==
    IF records = <<>> THEN CsvHeader \o Newline
    ELSE Join(<<CsvHeader>> \o [i \in 1..Len(records) |-> RestCsvRow(records[i])], Newline)

\* GET /export/<format>
export_data(format, fail) ==
    IF sheet /\ fail THEN Outcome(RestResp("error", 500), 1)
    ELSE IF Lower(format) = "csv"
    THEN Outcome([RestResp("export_csv", 200) EXCEPT !.csv = RestCsv(TransformedRecords)], 1)
    ELSE Outcome([RestResp("export_json", 200) EXCEPT !.rows = TransformedRecords], 1)

\* GET /get_data
get_data(fail) ==
    IF sheet /\ fail THEN Outcome(RestResp("error", 500), 1)
    ELSE Outcome([RestResp("get_data", 200) EXCEPT !.rows = TransformedRecords], 1)

\* GET /analytics
get_analytics(fail) ==
    LET analytics == generate_analytics(TransformedRecords)
    IN  IF sheet /\ fail THEN Outcome(RestResp("error", 500), 1)
        ELSE IF analytics.raised THEN Outcome(RestResp("error", 500), 1)
        ELSE Outcome([RestResp("get_analytics", 200)
                        EXCEPT !.count = Len(TransformedRecords),
                               !.summary = analytics.summary], 1)

\* GET /data-quality
get_data_quality(fail) ==
    IF sheet /\ fail THEN Outcome(RestResp("error", 500), 1)
    ELSE Outcome([RestResp("get_data_quality", 200)
                    EXCEPT !.count = Len(TransformedRecords),
                           !.summary = assess_data_quality(TransformedRecords)], 1)

\* POST /add_row: everything, request.get_json() included, is inside the try
add_row(body, get_json_raises, fail) ==
    LET validation == validate_data(body.json)
    IN  IF body.parse = "bad" /\ get_json_raises THEN Outcome(RestResp("error", 500), 0)
        ELSE IF body.parse = "bad" \/ ~IsDict(body.json) THEN Outcome(RestResp("error", 500), 0)
        ELSE IF validation.raised THEN Outcome(RestResp("error", 500), 0)
        ELSE IF validation.errors # <<>>
        THEN Outcome([RestResp("validation", 400) EXCEPT !.data = validation.errors], 0)
        ELSE IF sheet /\ fail THEN Outcome(RestResp("error", 500), 1)
        ELSE Appended(RestResp("add_row", 200), NewRecord(body.json))

-----------------------------------------------------------------------------
(* Bounded inputs *)

MaxAdds == 2

Dict5(name, city, age, email, phone) ==
    JDict(<<KV("Name", name), KV("City", city), KV("Age", age),
            KV("Email", email), KV("Phone", phone)>>)

AliceSmith == Dict5(JStr("Alice Smith"), JStr("Paris"), JStr("30"), JStr("a@b.com"), JStr("12345678"))
BoLi == Dict5(JStr("Bo Li"), JStr("Rome"), JInt(41), JStr("Bo.Li@Mail.org"), JStr("+1 (555) 123-4567"))
FourViolations == Dict5(JStr("A"), JStr("London"), JStr("200"), JStr("bad"), JStr("123"))
NumericName == Dict5(JInt(5), JStr("Paris"), JStr("30"), JStr("a@b.com"), JStr("12345678"))
NumericPhone == Dict5(JStr("Al"), JStr("Paris"), JStr("30"), JStr("a@b.com"), JInt(12345678))
NameOnly == JDict(<<KV("Name", JStr("Alice Smith"))>>)
NoAge == JDict(<<KV("Name", JStr("Alice Smith")), KV("City", JStr("Paris")),
                 KV("Email", JStr("a@b.com")), KV("Phone", JStr("12345678"))>>)

NotMappings == {JStr("Name City Email"), JNull, JList(2), JInt(3)}

AddRowParams ==
    {AliceSmith, BoLi, FourViolations, NumericName, NumericPhone, NameOnly, NoAge}
      \cup NotMappings

SearchParams ==
    { JDict(<<KV("City", JStr("london"))>>),
      JDict(<<KV("City", JStr("PAR"))>>),
      JDict(<<KV("Name", JStr("zzz"))>>),
      JDict(<<KV("Email", JStr(""))>>),
      JDict(<<KV("Name", JStr("a")), KV("Age", JStr("3"))>>),
      JDict(<<KV("Name", JStr("li")), KV("format", JStr("csv"))>>),
      JDict(<<KV("Age", JStr("30"))>>),
      JDict(<<KV("City", JInt(5))>>),
      JDict(<<KV("City", JStr("zzz")), KV("Name", JInt(5))>>),
      JDict(<<>>) } \cup NotMappings

ExportParams ==
    { JDict(<<>>), JDict(<<KV("format", JStr("csv"))>>), JDict(<<KV("format", JStr("CSV"))>>),
      JDict(<<KV("format", JStr("json"))>>), JDict(<<KV("format", JStr("xml"))>>),
      JDict(<<KV("format", JInt(5))>>) } \cup NotMappings

NoParams == {JDict(<<>>), JNull}

\* the id of an envelope: absent, null, a number, a string
IdItems == {<<>>, <<KV("id", JNull)>>, <<KV("id", JInt(7))>>, <<KV("id", JStr("req-1"))>>}

Envelope(method, params, id) ==
    JDict(<<KV("jsonrpc", JStr("2.0")), KV("method", method), KV("params", params)>> \o id)

Envelopes ==
    {Envelope(JStr("add_row"), p, id) : p \in AddRowParams, id \in IdItems}
      \cup {Envelope(JStr("search_records"), p, id) : p \in SearchParams, id \in IdItems}
      \cup {Envelope(JStr("export_data"), p, id) : p \in ExportParams, id \in IdItems}
      \cup {Envelope(JStr(m), p, id) :
              m \in {"get_data", "get_row_count", "get_analytics", "get_data_quality"},
              p \in NoParams, id \in IdItems}
      \cup {Envelope(m, JDict(<<>>), id) :
              m \in {JStr("delete_row"), JStr("ADD_ROW"), JInt(1), JNull}, id \in IdItems}

\* envelopes lacking one or more of the three required keys
Incomplete ==
    {JDict(items \o id) :
        items \in { <<>>,
                    <<KV("method", JStr("add_row")), KV("params", AliceSmith)>>,
                    <<KV("jsonrpc", JStr("2.0")), KV("params", AliceSmith)>>,
                    <<KV("jsonrpc", JStr("2.0")), KV("method", JStr("get_data"))>>,
                    <<KV("jsonrpc", JStr("2.0")), KV("method", JStr("export_data"))>>,
                    <<KV("method", JStr("delete_row"))>> },
        id \in IdItems}

NotObjects == {JNull, JInt(0), JInt(5), JStr(""), JStr("jsonrpc method params"), JList(0), JList(2)}

Parsed(json) == [parse |-> "ok", json |-> json]
BadBody == [parse |-> "bad", json |-> JNull]

McpBodies == {Parsed(j) : j \in Envelopes \cup Incomplete \cup NotObjects} \cup {BadBody}

RestBodies ==
    {Parsed(j) : j \in {AliceSmith, BoLi, FourViolations, NumericName, NoAge, JDict(<<>>), JNull, JList(2)}}
      \cup {BadBody}

Formats == {"csv", "CSV", "json", "xml"}

\* what the sheet holds when the service starts
InitialSheets ==
    { <<>>,
      <<Rec(JStr("Zoe Doe"), JStr("Paris, France"), JStr("52"), JStr("zoe@example.com"), JStr("99887766"))>> }

-----------------------------------------------------------------------------
(* The state machine: one step is one complete call *)

NoReq ==
    [op |-> "none", body |-> BadBody, get_json_raises |-> FALSE, fail |-> FALSE, format |-> ""]

\* an append that drops the record
DropRecord(store, record) == store

\* a write over the last element of the list
ReplaceLast(store, record) == [store EXCEPT ![Len(store)] = record]

\* an insert at the front of the list
PrependRecord(store, record) == <<record>> \o store

\* demo_data.append(record)
AppendRecord(store, record) == Append(store, record)

\* sheet.append_row(values): the values in the order Name, City, Age, Email, Phone
append_row(rows, record) == Append(rows, record)

\* the remote store can raise only in sheet mode, and only on an operation the
\* call reaches
fail_reached(r, out) == r.fail => (sheet /\ out.calls > 0)

Init ==
    /\ sheet \in BOOLEAN
    /\ header \in (IF sheet THEN HeaderVariants ELSE {2})
    /\ sheet_rows \in (IF sheet THEN InitialSheets ELSE {<<>>})
    /\ demo_data = SeedData
    /\ req = NoReq
    /\ resp = NoResp
    /\ prev = <<>>
    /\ store_calls = 0
    /\ acked = <<>>
    /\ arg = <<>>
    /\ ret = <<>>
    /\ threads = <<>>

\* the effect of one call on the state; a call starts when no other is being served
Effect(r, out) ==
    /\ req.op = "none"
    /\ fail_reached(r, out)
    /\ out.append => Len(acked) < MaxAdds
    /\ req' = r
    /\ resp' = out.resp
    /\ prev' = TransformedRecords
    /\ store_calls' = out.calls
    /\ acked' = IF out.append THEN Append(acked, out.rec) ELSE acked
    /\ IF out.append /\ sheet
       THEN sheet_rows' = append_row(sheet_rows, out.rec) /\ UNCHANGED demo_data
       ELSE IF out.append
       THEN demo_data' = AppendRecord(demo_data, out.rec) /\ UNCHANGED sheet_rows
       ELSE UNCHANGED <<sheet_rows, demo_data>>
    /\ UNCHANGED <<sheet, header, arg, ret, threads>>

McpCall ==
    \E body \in McpBodies, get_json_raises \in BOOLEAN, fail \in BOOLEAN :
        /\ get_json_raises => body.parse = "bad"
        /\ Effect([NoReq EXCEPT !.op = "mcp", !.body = body,
                                !.get_json_raises = get_json_raises, !.fail = fail],
                  mcp_endpoint(body, get_json_raises, fail))

RestAddRow ==
    \E body \in RestBodies, get_json_raises \in BOOLEAN, fail \in BOOLEAN :
        /\ get_json_raises => body.parse = "bad"
        /\ Effect([NoReq EXCEPT !.op = "rest_add_row", !.body = body,
                                !.get_json_raises = get_json_raises, !.fail = fail],
                  add_row(body, get_json_raises, fail))

RestGetData ==
    \E fail \in BOOLEAN :
        Effect([NoReq EXCEPT !.op = "rest_get_data", !.fail = fail], get_data(fail))

RestExport ==
    \E format \in Formats, fail \in BOOLEAN :
        Effect([NoReq EXCEPT !.op = "rest_export", !.format = format, !.fail = fail],
               export_data(format, fail))

RestAnalytics ==
    \E fail \in BOOLEAN :
        Effect([NoReq EXCEPT !.op = "rest_analytics", !.fail = fail], get_analytics(fail))

RestDataQuality ==
    \E fail \in BOOLEAN :
        Effect([NoReq EXCEPT !.op = "rest_data_quality", !.fail = fail], get_data_quality(fail))

\* the response has been sent: the request context is popped
EndRequest ==
    /\ req.op # "none"
    /\ req' = NoReq
    /\ resp' = NoResp
    /\ prev' = <<>>
    /\ store_calls' = 0
    /\ UNCHANGED <<sheet, header, sheet_rows, demo_data, acked, arg, ret, threads>>

Next ==
    \/ McpCall
    \/ RestAddRow
    \/ RestGetData
    \/ RestExport
    \/ RestAnalytics
    \/ RestDataQuality
    \/ EndRequest

Spec == Init /\ [][Next]_vars

-----------------------------------------------------------------------------
(* validate_data and transform_record as functions: arg is the input, ret  *)
(* the sequence of results computed from it so far.                        *)

\* no call is being served and the store is the seeded fallback
Quiet ==
    /\ sheet = FALSE
    /\ header = 2
    /\ sheet_rows = <<>>
    /\ demo_data = SeedData
    /\ req = NoReq
    /\ resp = NoResp
    /\ prev = <<>>
    /\ store_calls = 0
    /\ acked = <<>>
    /\ threads = <<>>

QuietVars ==
    <<sheet, header, sheet_rows, demo_data, req, resp, prev, store_calls, acked, threads>>

Absent == [t |-> "absent", s |-> "", n |-> 0, items |-> <<>>]

\* a candidate mapping: the fields whose value is not Absent, in field order
Candidate(name, city, age, email, phone) ==
    JDict(SelectSeq(<<KV("Name", name), KV("City", city), KV("Age", age),
                      KV("Email", email), KV("Phone", phone)>>,
                    LAMBDA kv : kv.v # Absent))

CandidateNames ==
    {Absent, JStr(""), JStr("A"), JStr(" A "), JStr("Al"), JStr("Alice Smith"),
     JStr("O'Neil-Jr"), JStr("R2D2")}
CandidateCities == {Absent, JStr("London"), JStr("X"), JStr("St. Louis")}
CandidateAges ==
    {Absent, JStr("200"), JStr("30"), JStr("12"), JStr("13"), JStr("0"), JStr("120"),
     JStr("abc"), JStr(" 41 "), JStr("-5"), JStr(""), JInt(30), JInt(121), JNull}
CandidateEmails ==
    {Absent, JStr("bad"), JStr("a@b.com"), JStr(" A@B.CO "), JStr("x@tempmail.com"),
     JStr("a@b.c"), JStr("a b@c.de"), JStr("@b.com")}
CandidatePhones ==
    {Absent, JStr(""), JStr("123"), JStr("12345678"), JStr("+1 (555) 123-4567"),
     JStr("123456789012345"), JStr("1234567890123456"), JStr("12ab5678")}

Candidates ==
    {Candidate(n, c, a, e, p) :
        n \in CandidateNames, c \in CandidateCities, a \in CandidateAges,
        e \in CandidateEmails, p \in CandidatePhones}

InitValidate == Quiet /\ arg \in Candidates /\ ret = <<>>

Validate ==
    /\ ret = <<>>
    /\ ret' = <<validate_data(arg)>>
    /\ UNCHANGED <<arg, QuietVars>>

SpecValidate == InitValidate /\ [][Validate]_vars

RawKeys == {"name", "Name", "NAME", "city", "CITY", "Age", "email", "Email", "note"}
RawValues == {JStr("v1"), JStr("v2")}
RawMappings == UNION {[keys -> RawValues] : keys \in SUBSET RawKeys}

InitNormalize == Quiet /\ arg \in RawMappings /\ ret = <<>>

\* transform_record(arg)
Normalize ==
    /\ ret = <<>>
    /\ ret' = <<transform_record(arg)>>
    /\ UNCHANGED <<arg, QuietVars>>

\* transform_record applied to its own output
NormalizeAgain ==
    /\ Len(ret) = 1
    /\ ret' = Append(ret, transform_record(ret[1]))
    /\ UNCHANGED <<arg, QuietVars>>

NextNormalize == Normalize \/ NormalizeAgain

SpecNormalize == InitNormalize /\ [][NextNormalize]_vars

-----------------------------------------------------------------------------
(* assess_data_quality and generate_analytics as functions of a record     *)
(* sequence: arg is the sequence, ret the result computed from it.         *)

MaxRecords == 4

\* the sequences of at most n records drawn from kinds
SeqsUpTo(kinds, n) == UNION {[1..k -> kinds] : k \in 0..n}

AnnLee == Rec(JStr("Ann Lee"), JStr("Oslo"), JStr("30"), JStr("ann@example.com"), JStr("12345678"))

\* records as the normalizer hands them over: every field there, values
\* strings, blank or not, or the numbers a sheet cell or a JSON body can hold
QualityRecords ==
    { AnnLee,
      [AnnLee EXCEPT !.Name = JStr(" Al ")],
      [AnnLee EXCEPT !.Phone = JStr("")],
      [AnnLee EXCEPT !.City = JStr("  ")],
      [AnnLee EXCEPT !.Age = JInt(41)],
      [AnnLee EXCEPT !.Age = JInt(0)],
      Rec(JStr(""), JStr(""), JStr(""), JStr(""), JStr("")) }

InitQuality == Quiet /\ arg \in SeqsUpTo(QualityRecords, MaxRecords) /\ ret = <<>>

\* records with an Age of every kind: digits, none, letters, a number, and a
\* digit that is not a decimal digit
Aged(age, city, phone) ==
    Rec(JStr("Ann Lee"), JStr(city), age, JStr("ann@example.com"), JStr(phone))

AnalyticsRecords ==
    { Aged(JStr("20"), "Oslo", "12345678"),
      Aged(JStr("30"), "Rome", "12345678"),
      Aged(JStr("40"), "Oslo", ""),
      Aged(JStr("50"), "", "12345678"),
      Aged(JStr("abc"), "Rome", "12345678"),
      Aged(JStr(""), "Lima", "12345678"),
      Aged(JInt(41), "Oslo", "12345678"),
      Aged(JStr("²"), "Oslo", "12345678") }

InitAnalytics == Quiet /\ arg \in SeqsUpTo(AnalyticsRecords, MaxRecords) /\ ret = <<>>

\* generate_analytics(arg)
GenerateAnalytics ==
    /\ ret = <<>>
    /\ ret' = <<generate_analytics(arg)>>
    /\ UNCHANGED <<arg, QuietVars>>

SpecAnalytics == InitAnalytics /\ [][GenerateAnalytics]_vars

\* assess_data_quality(arg)
AssessQuality ==
    /\ ret = <<>>
    /\ ret' = <<assess_data_quality(arg)>>
    /\ UNCHANGED <<arg, QuietVars>>

SpecQuality == InitQuality /\ [][AssessQuality]_vars

-----------------------------------------------------------------------------
(* Calls served concurrently on the fallback store (sheet is None), a      *)
(* statement per step: add_row validates, builds its record, appends it    *)
(* and answers; get_data serialises demo_data, the list itself, element by *)
(* element while other threads run.  Every writer thread serves one        *)
(* add_row; the reader thread serves one get_data after the other and may  *)
(* start each at any moment.                                               *)

MaxWriters == 2

Reader == 0
Writers == 1..MaxWriters
Workers == {Reader} \cup Writers

\* the calls a thread can be given: the operation and the mapping it carries
ThreadCalls ==
    { [op |-> "mcp_add_row", input |-> AliceSmith],
      [op |-> "mcp_add_row", input |-> FourViolations],
      [op |-> "rest_add_row", input |-> BoLi],
      [op |-> "get_data", input |-> JNull] }

Idle ==
    [pc |-> "idle", op |-> "", input |-> JNull, record |-> <<>>, i |-> 0,
     seen |-> <<>>, must_see |-> {}, status |-> ""]

\* the threads whose add_row has returned success
Succeeded == {w \in DOMAIN threads : threads[w].pc = "returned" /\ threads[w].status = "success"}

InitThreads ==
    /\ sheet = FALSE
    /\ header = 2
    /\ sheet_rows = <<>>
    /\ demo_data = SeedData
    /\ req = NoReq
    /\ resp = NoResp
    /\ prev = <<>>
    /\ store_calls = 0
    /\ acked = <<>>
    /\ arg = <<>>
    /\ ret = <<>>
    /\ threads = [w \in Workers |-> Idle]

OtherVars == <<sheet, header, sheet_rows, req, resp, prev, store_calls, acked, arg, ret>>

\* the framework hands a request to thread w
Begin(w) ==
    /\ threads[w].pc = "idle"
    /\ \E call \in ThreadCalls :
          /\ (call.op = "get_data") = (w = Reader)
          /\ threads' = [threads EXCEPT ![w] =
              [Idle EXCEPT !.op = call.op, !.input = call.input,
                           !.must_see = Succeeded,
                           !.pc = IF call.op = "get_data" THEN "serialise" ELSE "validate"]]
    /\ UNCHANGED <<demo_data, OtherVars>>

\* validation_errors = validate_data(...) and the answer when it is not empty
ValidateStep(w) ==
    /\ threads[w].pc = "validate"
    /\ LET validation == validate_data(threads[w].input)
       IN  threads' = [threads EXCEPT ![w] =
               IF validation.raised \/ validation.errors # <<>>
               THEN [@ EXCEPT !.pc = "returned", !.status = "error"]
               ELSE [@ EXCEPT !.pc = "build"]]
    /\ UNCHANGED <<demo_data, OtherVars>>

\* record = {'Name': ..., 'City': ..., 'Age': ..., 'Email': ..., 'Phone': ...}
BuildRecord(w) ==
    /\ threads[w].pc = "build"
    /\ threads' = [threads EXCEPT ![w].record = NewRecord(threads[w].input),
                                  ![w].pc = "append"]
    /\ UNCHANGED <<demo_data, OtherVars>>

\* demo_data.append(record): one list operation
AppendStep(w) ==
    /\ threads[w].pc = "append"
    /\ demo_data' = AppendRecord(demo_data, threads[w].record)
    /\ threads' = [threads EXCEPT ![w].pc = "respond"]
    /\ UNCHANGED OtherVars

\* return jsonify({... "status": "success" ...})
Respond(w) ==
    /\ threads[w].pc = "respond"
    /\ threads' = [threads EXCEPT ![w].pc = "returned", ![w].status = "success"]
    /\ UNCHANGED <<demo_data, OtherVars>>

\* jsonify(transformed_records) with transformed_records = demo_data: the
\* encoder takes the next element of the list, or finds the list exhausted
SerialiseNext(w) ==
    /\ threads[w].pc = "serialise"
    /\ threads' = [threads EXCEPT ![w] =
           IF @.i < Len(demo_data)
           THEN [@ EXCEPT !.i = @ + 1, !.seen = Append(@, demo_data[threads[w].i + 1])]
           ELSE [@ EXCEPT !.pc = "returned", !.status = "read"]]
    /\ UNCHANGED <<demo_data, OtherVars>>

\* the answer of the reader has been sent; its thread takes the next request
EndCall(w) ==
    /\ w = Reader
    /\ threads[w].pc = "returned"
    /\ threads' = [threads EXCEPT ![w] = Idle]
    /\ UNCHANGED <<demo_data, OtherVars>>

NextThreads ==
    \E w \in Workers :
        \/ Begin(w)
        \/ EndCall(w)
        \/ ValidateStep(w)
        \/ BuildRecord(w)
        \/ AppendStep(w)
        \/ Respond(w)
        \/ SerialiseNext(w)

SpecThreads == InitThreads /\ [][NextThreads]_vars

-----------------------------------------------------------------------------
(* Properties of the envelope endpoint *)

\* the call being answered is an envelope call that reached the handler of method
HandledBy(method) ==
    /\ req.op = "mcp"
    /\ req.body.parse = "ok"
    /\ IsDict(req.body.json)
    /\ \A k \in {"jsonrpc", "method", "params"} : HasKey(req.body.json, k)
    /\ Get(req.body.json, "method", JNull) = JStr(method)

ReqParams == Get(req.body.json, "params", JNull)

\* the id of the request envelope; null when there is none
RequestId ==
    IF req.body.parse = "ok" /\ IsDict(req.body.json)
    THEN Get(req.body.json, "id", JNull)
    ELSE JNull

IsError(name, http) ==
    /\ resp.kind = "envelope"
    /\ resp.has_error /\ ~resp.has_result
    /\ resp.code = MCP_ERRORS[name]
    /\ resp.http = http

StoreUnchanged == TransformedRecords = prev

\* C1: on add_row the checks run in order and the first failing one decides:
\* params not a mapping or lacking Name or City gives INVALID_PARAMS with 400;
\* otherwise a non-empty violation list gives VALIDATION_ERROR with 400 and that
\* list as data; otherwise one record built from the five params fields is
\* appended and the result is success with rows_added 1.
C1_AddRowChecksInOrder ==
    HandledBy("add_row") =>
        IF ~IsDict(ReqParams) \/ ~HasKey(ReqParams, "Name") \/ ~HasKey(ReqParams, "City")
        THEN IsError("INVALID_PARAMS", 400) /\ StoreUnchanged
        ELSE IF validate_data(ReqParams).errors # <<>>
        THEN /\ IsError("VALIDATION_ERROR", 400)
             /\ resp.data = validate_data(ReqParams).errors
             /\ StoreUnchanged
        ELSE /\ resp.kind = "envelope" /\ resp.has_result /\ ~resp.has_error
             /\ resp.tag = "add_row" /\ resp.count = 1
             /\ TransformedRecords = Append(prev, NewRecord(ReqParams))

\* C2: once add_row has answered success for a record, every later get_data
\* result contains that record, and the row count get_row_count reports is one
\* higher after the add_row than it was immediately before it.
C2_AddedRecordStaysVisible ==
    /\ resp.tag = "get_data" =>
          \A i \in 1..Len(acked) : \E j \in 1..Len(resp.rows) : resp.rows[j] = acked[i]
    /\ resp.tag = "add_row" =>
          handle_mcp_get_row_count(JDict(<<>>), FALSE).resp.count = Len(prev) + 1
    /\ resp.tag = "get_row_count" => resp.count = Len(prev)

\* a get_data answered after two successful add_row calls
C2_Witness ==
    /\ resp.kind = "envelope" /\ resp.tag = "get_data"
    /\ Len(acked) >= 2
    /\ \E j \in 1..Len(resp.rows) : resp.rows[j] = NewRecord(AliceSmith)

SevenMethods ==
    {JStr(m) : m \in {"add_row", "get_data", "get_row_count", "search_records",
                      "get_analytics", "get_data_quality", "export_data"}}

IsEnvelopeObject == req.op = "mcp" /\ req.body.parse = "ok" /\ IsDict(req.body.json)

LacksRequiredKey ==
    \E k \in {"jsonrpc", "method", "params"} : ~HasKey(req.body.json, k)

UnknownMethodAnswer ==
    (IsEnvelopeObject /\ ~LacksRequiredKey
       /\ Get(req.body.json, "method", JNull) \notin SevenMethods)
      => /\ IsError("METHOD_NOT_FOUND", 404)
         /\ resp.id = RequestId
         /\ store_calls = 0 /\ StoreUnchanged

\* C3 as stated: an envelope lacking any of the three required keys is answered
\* INVALID_REQUEST with 400 whatever its method, an envelope with the three keys
\* and an unknown method METHOD_NOT_FOUND with 404; the id is echoed and no
\* store operation is performed.
C3_RequiredKeysBeforeRouting ==
    /\ (IsEnvelopeObject /\ LacksRequiredKey)
          => /\ IsError("INVALID_REQUEST", 400)
             /\ resp.id = RequestId
             /\ store_calls = 0 /\ StoreUnchanged
    /\ UnknownMethodAnswer

\* C3 amended: the same for an envelope that has at least one key; the empty
\* object {} is an empty request and is answered INTERNAL_ERROR with 500 and a
\* null id, also without a store operation.
C3_NonEmptyEnvelopeRequiredKeys ==
    /\ (IsEnvelopeObject /\ LacksRequiredKey)
          => /\ IF req.body.json.items # <<>>
                THEN IsError("INVALID_REQUEST", 400)
                ELSE IsError("INTERNAL_ERROR", 500)
             /\ resp.id = RequestId
             /\ store_calls = 0 /\ StoreUnchanged
    /\ UnknownMethodAnswer

\* an envelope naming add_row with valid params but no protocol version, id 7
C3_Witness ==
    /\ IsEnvelopeObject
    /\ ~HasKey(req.body.json, "jsonrpc")
    /\ Get(req.body.json, "method", JNull) = JStr("add_row")
    /\ IsError("INVALID_REQUEST", 400)
    /\ resp.id = JInt(7)

C5_EndpointIsTotal ==
    req.op = "mcp" =>
        /\ resp.kind = "envelope"
        /\ (req.body.parse = "bad" \/ ~IsDict(req.body.json)) => IsError("INTERNAL_ERROR", 500)
        /\ (HandledBy("export_data") /\ ~IsDict(ReqParams)) => IsError("INTERNAL_ERROR", 500)

\* C6: when the store operation of an envelope call raises, the answer is
\* SHEET_ERROR with 500, never a result, and the operation was attempted once.
C6_StoreFailureIsSheetError ==
    (req.op = "mcp" /\ req.fail) =>
        /\ IsError("SHEET_ERROR", 500)
        /\ store_calls = 1

\* the text a search value is compared by
SearchText(v) == Lower(Str(v))

\* record r matches params: every pair whose field is on r has its lower-cased
\* value inside r's lower-cased field value
Matches(r, params) ==
    \A i \in 1..Len(params.items) :
        params.items[i].k \in DOMAIN r =>
            Contains(SearchText(r[params.items[i].k]), SearchText(params.items[i].v))

\* C7: search_records answers INVALID_PARAMS with 400 when params is not a
\* mapping or holds none of Name, City, Email; otherwise the result is the
\* matching records in store order, and DATA_NOT_FOUND with 404 when there is
\* none.
C7_SearchIsTheMatchingSubsequence ==
    (HandledBy("search_records") /\ ~req.fail) =>
        IF ~IsDict(ReqParams) \/ ~(\E k \in {"Name", "City", "Email"} : HasKey(ReqParams, k))
        THEN IsError("INVALID_PARAMS", 400)
        ELSE LET expected == SelectSeq(prev, LAMBDA r : Matches(r, ReqParams))
             IN  IF expected = <<>>
                 THEN IsError("DATA_NOT_FOUND", 404)
                 ELSE /\ resp.kind = "envelope" /\ resp.has_result /\ ~resp.has_error
                      /\ resp.rows = expected

-----------------------------------------------------------------------------
(* Properties of validate_data, transform_record and the CSV export *)

FieldIndex(f) == CHOOSE i \in 1..Len(Fields) : Fields[i] = f

\* the field each violation message is about
MessageField(msg) ==
    CASE msg \in {"Name must be at least 2 characters",
                  "Name should only contain letters, spaces, hyphens, and apostrophes"} -> "Name"
      [] msg \in {"City must be at least 2 characters",
                  "City should only contain letters, spaces, hyphens, and apostrophes"} -> "City"
      [] msg \in {"Age must be a valid number", "Age must be between 1 and 120",
                  "Age appears too young for data collection compliance"} -> "Age"
      [] msg \in {"Email address is required", "Please enter a valid email address",
                  "Temporary email addresses are not allowed"} -> "Email"
      [] msg \in {"Phone number is required", "Phone number should contain only digits",
                  "Phone number must be at least 8 digits", "Phone number seems too long"} -> "Phone"

TextOf(data, f) == IF HasKey(data, f) THEN Get(data, f, JNull).s ELSE ""

\* the rule of each field
RuleHolds(f, data) ==
    CASE f \in {"Name", "City"} ->
            /\ Len(Strip(TextOf(data, f))) >= 2
            /\ \A c \in CharsOf(Strip(TextOf(data, f))) : c \in NameClass
      [] f = "Age" ->
            /\ HasKey(data, "Age")
            /\ PyInt(Get(data, "Age", JNull)).ok
            /\ PyInt(Get(data, "Age", JNull)).n \in 13..120
      [] f = "Email" ->
            /\ MatchesEmail(Lower(Strip(TextOf(data, f))))
            /\ \A d \in DisposableDomains : ~Contains(Lower(Strip(TextOf(data, f))), d)
      [] f = "Phone" ->
            /\ IsDigit(Remove(TextOf(data, f), PhoneSeparators))
            /\ Len(Remove(TextOf(data, f), PhoneSeparators)) \in 8..15

LowercaseKey == [Name |-> "name", City |-> "city", Age |-> "age", Email |-> "email", Phone |-> "phone"]
UppercaseKey == [Name |-> "NAME", City |-> "CITY", Age |-> "AGE", Email |-> "EMAIL", Phone |-> "PHONE"]

\* the value of the first present variant: lowercase, capitalized, uppercase
FirstVariant(r, f) ==
    IF LowercaseKey[f] \in DOMAIN r THEN r[LowercaseKey[f]]
    ELSE IF f \in DOMAIN r THEN r[f]
    ELSE IF UppercaseKey[f] \in DOMAIN r THEN r[UppercaseKey[f]]
    ELSE JStr("")

\* C9: normalization gives exactly the five canonical fields, each the value of
\* the first present variant in the order lowercase, capitalized, uppercase, or
\* the empty string when no variant is present, and normalizing the result
\* again changes nothing.
C9_NormalizeTotalIdempotent ==
    /\ Len(ret) >= 1 =>
          /\ DOMAIN ret[1] = {"Name", "City", "Age", "Email", "Phone"}
          /\ \A f \in DOMAIN ret[1] : ret[1][f] = FirstVariant(arg, f)
    /\ Len(ret) >= 2 => ret[2] = ret[1]

\* a mapping holding two variants of Name with different values, normalized twice
C9_Witness ==
    /\ Len(ret) = 2
    /\ {"name", "NAME", "note"} \subseteq DOMAIN arg
    /\ arg["name"] # arg["NAME"]
    /\ ret[2]["Name"] = arg["name"]

\* the lines of a text, without the empty line after a final newline
RECURSIVE SplitLines(_)
SplitLines(text) ==
    IF text = "" THEN <<>>
    ELSE LET breaks == {i \in 1..Len(text) : Ch(text, i) = "\n"}
         IN  IF breaks = {} THEN <<text>>
             ELSE LET b == CHOOSE i \in breaks : \A j \in breaks : i <= j
                  IN  <<SubSeq(text, 1, b - 1)>> \o SplitLines(From(text, b + 1))

\* a value with every comma replaced by ';'
RECURSIVE Semicolons(_)
Semicolons(s) ==
    IF s = "" THEN ""
    ELSE IF Ch(s, 1) = "," THEN ";" \o Semicolons(From(s, 2))
    ELSE Ch(s, 1) \o Semicolons(From(s, 2))

\* the row of a record: its five fields, commas replaced by ';', joined by ','
ExpectedRow(r) ==
    Semicolons(Str(r.Name)) \o "," \o Semicolons(Str(r.City)) \o "," \o Semicolons(Str(r.Age))
      \o "," \o Semicolons(Str(r.Email)) \o "," \o Semicolons(Str(r.Phone))

\* C10: the CSV export of the envelope method and of the REST route is the
\* header row Name,City,Age,Email,Phone followed by one row per record in store
\* order, commas inside a value replaced by ';' and nothing quoted, so both
\* surfaces give the same rows.
C10_CsvRowsOnBothSurfaces ==
    resp.tag = "export_csv" =>
        SplitLines(resp.csv) =
            <<CsvHeader>> \o [i \in 1..Len(prev) |-> ExpectedRow(prev[i])]

-----------------------------------------------------------------------------
(* Properties of the store *)

IsPrefix(s, t) == Len(s) <= Len(t) /\ SubSeq(t, 1, Len(s)) = s

\* the mapping the add_row call being answered was given
AddRowInput(r) ==
    IF r.op = "mcp" THEN Get(r.body.json, "params", JNull) ELSE r.body.json

\* the answer is the success of an add_row, on either surface
AddRowSucceeded(r, a) ==
    /\ r.op \in {"mcp", "rest_add_row"}
    /\ a.tag = "add_row"
    /\ a.http = 200
    /\ ~a.has_error

\* C11: the store is append-only under every sequence of REST and envelope
\* operations: the record sequence before a step is a prefix of the sequence
\* after it; the sequence changes only in a step that answers add_row with
\* success, and then by exactly the one record built from that call's input,
\* added at the end; every read and every add_row answered with an error leaves
\* the sequence as it was.
C11_StoreIsAppendOnly ==
    [][ IF UNCHANGED <<sheet, header, sheet_rows, demo_data>>
        THEN \* the observed sequence is a function of these four: it is unchanged
             ~AddRowSucceeded(req', resp')
        ELSE \A before \in {TransformedRecords}, after \in {TransformedRecords'} :
               /\ IsPrefix(before, after)
               /\ after # before =>
                     /\ AddRowSucceeded(req', resp')
                     /\ after = Append(before, NewRecord(AddRowInput(req')))
               /\ ~AddRowSucceeded(req', resp') => after = before
               /\ AddRowSucceeded(req', resp') => Len(after) = Len(before) + 1 ]_vars

\* a second successful add_row has put its record behind the first one, after
\* the seeded records
C11_Witness ==
    /\ AddRowSucceeded(req, resp)
    /\ Len(acked) = 2
    /\ acked[1] # acked[2]
    /\ TransformedRecords = prev \o <<acked[2]>>
    /\ prev[Len(prev)] = acked[1]

\* C12: with add_row calls of both surfaces running concurrently on the
\* fallback store, interleaved in any order with reads: a reader never gets a
\* record with only some of its five fields; once every call has returned, the
\* store holds the initial records plus one per add_row that returned success;
\* and a read that started after an add_row returned success has that record
\* in its result.
C12_ConcurrentAppendsAtomic ==
    /\ \A w \in DOMAIN threads :
          \A k \in 1..Len(threads[w].seen) : DOMAIN threads[w].seen[k] = FieldSet
    /\ (\A w \in DOMAIN threads : threads[w].pc \in {"idle", "returned"}) =>
          Len(demo_data) = Len(SeedData) + Cardinality(Succeeded)
    /\ \A w \in DOMAIN threads :
          threads[w].status = "read" =>
              \A a \in threads[w].must_see :
                  \E k \in 1..Len(threads[w].seen) : threads[w].seen[k] = threads[a].record

\* every call has returned: two add_row calls, one per surface, succeeded, and
\* a read that started after one of them and overlapped the other saw both
C12_Witness ==
    /\ \A w \in DOMAIN threads : threads[w].pc = "returned"
    /\ \E a, b, r \in DOMAIN threads :
          /\ threads[a].op = "mcp_add_row" /\ threads[a].status = "success"
          /\ threads[b].op = "rest_add_row" /\ threads[b].status = "success"
          /\ threads[r].status = "read"
          /\ threads[r].must_see = {a}
          /\ Len(threads[r].seen) = Len(SeedData) + 2
          /\ threads[r].seen[Len(SeedData) + 1] = threads[b].record

-----------------------------------------------------------------------------
(* Properties of the quality report *)

\* the number of positions of seq that satisfy Test
CountOf(seq, Test(_)) == Cardinality({k \in 1..Len(seq) : Test(seq[k])})

StartsWith(text, prefix) ==
    Len(text) >= Len(prefix) /\ SubSeq(text, 1, Len(prefix)) = prefix

LowScoreIssue == "Low data completeness - consider improving data collection"
IsFieldIssue(f, issue) == StartsWith(issue, f \o " field has low completion rate (")
GoodMessage == "Data quality looks good!"

\* the trimmed value of the field is not empty
TrimmedNonEmpty(record, f) == Strip(Str(record[f])) # ""

\* the value of the field is not a falsy one (no empty string, no number 0) and,
\* trimmed, is not empty
TruthyAndTrimmedNonEmpty(record, f) == Truthy(record[f]) /\ TrimmedNonEmpty(record, f)

\* the reported number of tenths is exactly 100 * count / total
ExactScore(tenths, count, total) == tenths * total = 1000 * count

\* the reported number of tenths is 100 * count / total rounded to one decimal
OneDecimalScore(tenths, count, total) ==
    LET diff == tenths * total - 1000 * count
    IN  2 * diff <= total /\ -2 * diff <= total

\* the report of the scorer on arg, given what makes a field present and how a
\* reported score relates to the counts
QualityReportIs(report, IsPresent(_, _), ScoreIs(_, _, _)) ==
    IF arg = <<>>
    THEN report = [overall_score |-> 0, issues |-> <<"No data available">>]
    ELSE LET total == Len(arg)
             complete == CountOf(arg, LAMBDA r : \A f \in FieldSet : IsPresent(r, f))
             present(f) == CountOf(arg, LAMBDA r : IsPresent(r, f))
             low_score == 100 * complete < 70 * total
             low(f) == 100 * present(f) < 80 * total
             found == (IF low_score THEN 1 ELSE 0) + Cardinality({f \in FieldSet : low(f)})
         IN  /\ report.total_records = total
             /\ report.complete_records = complete
             /\ ScoreIs(report.overall_score, complete, total)
             /\ \A f \in FieldSet : ScoreIs(report.field_completion_rates[f], present(f), total)
             /\ found > 0 =>
                   /\ Len(report.issues) = found
                   /\ CountOf(report.issues, LAMBDA m : m = LowScoreIssue)
                         = IF low_score THEN 1 ELSE 0
                   /\ \A f \in FieldSet :
                         CountOf(report.issues, LAMBDA m : IsFieldIssue(f, m))
                           = IF low(f) THEN 1 ELSE 0
             /\ (found = 0) = (report.issues = <<GoodMessage>>)

-----------------------------------------------------------------------------
(* Properties of the analytics summary *)

\* the Age of the record is, as text, a non-empty run of the digits 0 to 9
AllDigitAge(r) == IsDecimal(Str(r.Age))

\* the ages of the records with an all-digit Age, in sequence order
ClaimedAges(data) ==
    LET digit_records == SelectSeq(data, AllDigitAge)
    IN  [i \in 1..Len(digit_records) |-> NatOf(Str(digit_records[i].Age))]

\* m is the element at index floor(n/2) (from 0) of ages sorted ascending
IsUpperMedian(m, ages) ==
    /\ \E i \in 1..Len(ages) : ages[i] = m
    /\ Cardinality({i \in 1..Len(ages) : ages[i] < m}) <= Len(ages) \div 2
    /\ Cardinality({i \in 1..Len(ages) : ages[i] <= m}) > Len(ages) \div 2

\* C14: for every record sequence generate_analytics returns only the minimal
\* total_records 0 summary when the sequence is empty; otherwise total_records
\* is the sequence length, the age statistics are computed only over the
\* records whose Age is a non-empty all-digit string, median is the element at
\* index floor(n/2) of those ages sorted ascending (30 for [20,30,40], 40 for
\* [20,30,40,50]), min and max are taken over the same set, and
\* data_completeness is the overall_score the scorer returns for the sequence.
C14_AnalyticsSummary ==
    Len(ret) = 1 =>
        /\ ~ret[1].raised
        /\ IF arg = <<>>
           THEN ret[1].summary = [total_records |-> 0, message |-> "No data available"]
           ELSE LET summary == ret[1].summary
                    ages == ClaimedAges(arg)
                IN  /\ summary.total_records = Len(arg)
                    /\ (ages = <<>>) = (summary.age_statistics = <<>>)
                    /\ ages # <<>> =>
                          /\ IsUpperMedian(summary.age_statistics.median, ages)
                          /\ \A i \in 1..Len(ages) :
                                /\ summary.age_statistics.min <= ages[i]
                                /\ summary.age_statistics.max >= ages[i]
                          /\ \E i, j \in 1..Len(ages) :
                                /\ summary.age_statistics.min = ages[i]
                                /\ summary.age_statistics.max = ages[j]
                          /\ ages = <<20, 30, 40>> => summary.age_statistics.median = 30
                          /\ ages = <<20, 30, 40, 50>> => summary.age_statistics.median = 40
                    /\ summary.data_completeness = assess_data_quality(arg).overall_score

-----------------------------------------------------------------------------
(* Properties of the fallback store *)

\* the stored record as the mapping the validator is given
AsMapping(record) ==
    Dict5(record["Name"], record["City"], record["Age"], record["Email"], record["Phone"])

\* C15: in fallback mode every stored record has exactly the five canonical
\* fields and passes the validator with zero violations, so every stored
\* record is complete and get_data_quality, on either surface, reports
\* overall_score 100.
C15_FallbackStoreHoldsValidRecords ==
    ~sheet =>
        /\ \A i \in 1..Len(demo_data) :
              /\ DOMAIN demo_data[i] = FieldSet
              /\ ~validate_data(AsMapping(demo_data[i])).raised
              /\ validate_data(AsMapping(demo_data[i])).errors = <<>>
              /\ \A f \in FieldSet :
                    Truthy(demo_data[i][f]) /\ Strip(Str(demo_data[i][f])) # ""
        /\ resp.tag = "get_data_quality" =>
              /\ resp.summary.overall_score = 1000
              /\ resp.summary.complete_records = Len(demo_data)
              /\ resp.summary.total_records = Len(demo_data)

\* the quality report asked for after two records were added to the seeded
\* fallback store, one of them with a numeric Age
C15_Witness ==
    /\ ~sheet
    /\ resp.tag = "get_data_quality"
    /\ resp.summary.overall_score = 1000
    /\ Len(acked) = 2
    /\ Len(demo_data) = Len(SeedData) + 2
    /\ \E i \in 1..Len(demo_data) : demo_data[i]["Age"] = JInt(41)

====
